---- MODULE Spec2Model ----
(***************************************************************************)
(* SHA-1 as implemented in src/src/lib.rs: the length check of sha1, the   *)
(* padding of pad_data (with its 32-bit floating point index arithmetic),  *)
(* the 80 rounds of block, and the hex rendering of Sha1::to_string.       *)
(*                                                                         *)
(* Number representations (TLC integers are 32-bit signed):                *)
(*   u32   <<hi, lo>>, two 16-bit halves, value hi * 2^16 + lo             *)
(*   usize <<l0, l1, l2, l3>>, four 16-bit limbs, least significant first  *)
(*   f32   [m |-> mantissa < 2^24, e |-> exponent], value m * 2^e          *)
(***************************************************************************)
EXTENDS Integers, Sequences, FiniteSets, TLC

\* ------------------------------------------------------------ bit level

\* 2^16, the radix of the half-word and limb representations.
H16 == 256 * 256

RECURSIVE Pow2(_)
Pow2(k) == IF k = 0 THEN 1 ELSE 2 * Pow2(k - 1)

\* Bitwise operators on naturals below 2^16.
RECURSIVE BitXor(_, _)
BitXor(x, y) ==
    IF x = 0 THEN y
    ELSE IF y = 0 THEN x
    ELSE (((x % 2) + (y % 2)) % 2) + 2 * BitXor(x \div 2, y \div 2)

RECURSIVE BitAnd(_, _)
BitAnd(x, y) ==
    IF x = 0 \/ y = 0 THEN 0
    ELSE ((x % 2) * (y % 2)) + 2 * BitAnd(x \div 2, y \div 2)

RECURSIVE BitOr(_, _)
BitOr(x, y) ==
    IF x = 0 THEN y
    ELSE IF y = 0 THEN x
    ELSE (IF x % 2 = 1 \/ y % 2 = 1 THEN 1 ELSE 0) + 2 * BitOr(x \div 2, y \div 2)

\* ------------------------------------------------------------ u32

Word(hi, lo) == <<hi, lo>>
W0 == Word(0, 0)

Xor32(x, y) == Word(BitXor(x[1], y[1]), BitXor(x[2], y[2]))
And32(x, y) == Word(BitAnd(x[1], y[1]), BitAnd(x[2], y[2]))
Or32(x, y) == Word(BitOr(x[1], y[1]), BitOr(x[2], y[2]))
Not32(x) == Word(H16 - 1 - x[1], H16 - 1 - x[2])

\* Wrapping<u32> addition.
Add32(x, y) ==
    LET lo == x[2] + y[2]
        hi == x[1] + y[1] + (lo \div H16)
    IN  Word(hi % H16, lo % H16)

\* u32::rotate_left(n), 0 <= n < 32.
RotL(x, n) ==
    LET s == IF n >= 16 THEN Word(x[2], x[1]) ELSE x
        k == n % 16
        p == Pow2(k)
        q == Pow2(16 - k)
    IN  IF k = 0 THEN s
        ELSE Word((s[1] % q) * p + (s[2] \div q), (s[2] % q) * p + (s[1] \div q))

\* (byte as u32) << sh, for a shift sh in {0, 8, 16, 24}: no bit is lost.
ShlByte(b, sh) ==
    IF sh = 24 THEN Word(b * 256, 0)
    ELSE IF sh = 16 THEN Word(b, 0)
    ELSE IF sh = 8 THEN Word(0, b * 256)
    ELSE Word(0, b)

\* ------------------------------------------------------------ usize (64 bit)

U64(n) == <<n % H16, (n \div H16) % H16, 0, 0>>
U64Zero == <<0, 0, 0, 0>>
U64One == <<1, 0, 0, 0>>

\* a < b, most significant limb first.
U64Lt(a, b) ==
    \/ a[4] < b[4]
    \/ a[4] = b[4] /\ a[3] < b[3]
    \/ a[4] = b[4] /\ a[3] = b[3] /\ a[2] < b[2]
    \/ a[4] = b[4] /\ a[3] = b[3] /\ a[2] = b[2] /\ a[1] < b[1]

U64Ge(a, b) == ~U64Lt(a, b)

\* The doubling a * 2 as [v |-> low 64 bits, c |-> the bit carried out].
U64Dbl(a) ==
    LET d1 == 2 * a[1]
        d2 == 2 * a[2] + (d1 \div H16)
        d3 == 2 * a[3] + (d2 \div H16)
        d4 == 2 * a[4] + (d3 \div H16)
    IN  [v |-> <<d1 % H16, d2 % H16, d3 % H16, d4 % H16>>, c |-> d4 \div H16]

\* a << k on 64 bits (bits shifted out are dropped).
RECURSIVE U64Shl(_, _)
U64Shl(a, k) == IF k = 0 \/ a = <<0, 0, 0, 0>> THEN a ELSE U64Shl(U64Dbl(a).v, k - 1)

\* a >> 1.
U64Half(a) ==
    << (a[1] \div 2) + (a[2] % 2) * (H16 \div 2),
       (a[2] \div 2) + (a[3] % 2) * (H16 \div 2),
       (a[3] \div 2) + (a[4] % 2) * (H16 \div 2),
       a[4] \div 2 >>

RECURSIVE U64Shr(_, _)
U64Shr(a, k) == IF k = 0 \/ a = <<0, 0, 0, 0>> THEN a ELSE U64Shr(U64Half(a), k - 1)

\* a + 1, wrapping.
U64Inc(a) ==
    LET s1 == a[1] + 1
        s2 == a[2] + (s1 \div H16)
        s3 == a[3] + (s2 \div H16)
        s4 == a[4] + (s3 \div H16)
    IN  <<s1 % H16, s2 % H16, s3 % H16, s4 % H16>>

\* a * 8 as [v |-> wrapped product, ovf |-> whether it left 64 bits].
U64Mul8(a) ==
    LET x == U64Dbl(a)
        y == U64Dbl(x.v)
        z == U64Dbl(y.v)
    IN  [v |-> z.v, ovf |-> x.c + y.c + z.c > 0]

\* Whether a fits a model integer, and its value then.
U64Small(a) == a[4] = 0 /\ a[3] = 0 /\ a[2] < H16 \div 4
U64Nat(a) == a[1] + a[2] * H16

\* usize as u32 (truncating) and (usize >> 32) as u32.
U64Low32(a) == Word(a[2], a[1])
U64High32(a) == Word(a[4], a[3])

\* ------------------------------------------------------------ f32

\* 2^24: an f32 significand has 24 bits.
F32Lim == Pow2(24)

F32Val(m, e) == [m |-> m, e |-> e]

\* s plus the round-to-nearest, ties-to-even correction for a discarded
\* fraction rem / den (0 <= rem < den).
RoundNE(s, rem, den) ==
    IF 2 * rem > den \/ (2 * rem = den /\ s % 2 = 1) THEN s + 1 ELSE s

\* A rounded significand that reached 2^24 is 2^23 with the next exponent.
F32Fit(m, e) == IF m = F32Lim THEN F32Val(F32Lim \div 2, e + 1) ELSE F32Val(m, e)

\* The significand scaled into [2^23, 2^24) (zero stays zero).
RECURSIVE F32Norm(_)
F32Norm(x) ==
    IF x.m = 0 THEN F32Val(0, 0)
    ELSE IF x.m < F32Lim \div 2 THEN F32Norm(F32Val(2 * x.m, x.e - 1))
    ELSE x

\* usize as f32: halve until the value fits 24 bits, remembering the last
\* bit dropped (g) and whether any earlier dropped bit was set (st), then
\* round to nearest, ties to even.
RECURSIVE U64ToF32Rec(_)
U64ToF32Rec(s) ==
    IF s.a[4] = 0 /\ s.a[3] = 0 /\ s.a[2] < 256
    THEN LET m == s.a[1] + s.a[2] * H16
         IN  F32Fit(RoundNE(m, 2 * s.g + s.st, 4), s.e)
    ELSE U64ToF32Rec([a |-> U64Half(s.a), e |-> s.e + 1, g |-> s.a[1] % 2,
                      st |-> IF s.g = 1 \/ s.st = 1 THEN 1 ELSE 0])

U64ToF32(a) == U64ToF32Rec([a |-> a, e |-> 0, g |-> 0, st |-> 0])

\* x / d for an f32 x and an f32 constant of integer value d (512, 448, 64,
\* 4): binary long division to 24 significant bits, then rounding.
RECURSIVE F32DivRec(_, _)
F32DivRec(s, d) ==
    IF s.q >= F32Lim \div 2 THEN F32Fit(RoundNE(s.q, s.r, d), s.e)
    ELSE LET b == IF 2 * s.r >= d THEN 1 ELSE 0
         IN  F32DivRec([q |-> 2 * s.q + b, r |-> 2 * s.r - b * d, e |-> s.e - 1], d)

F32Div(x, d) ==
    IF x.m = 0 THEN F32Val(0, 0)
    ELSE F32DivRec([q |-> x.m \div d, r |-> x.m % d, e |-> x.e], d)

\* f32::floor and f32::ceil of a value >= 0.
F32Floor(x) ==
    IF x.e >= 0 THEN x
    ELSE IF x.e <= -24 THEN F32Val(0, 0)
    ELSE F32Val(x.m \div Pow2(-x.e), 0)

F32Ceil(x) ==
    IF x.e >= 0 THEN x
    ELSE IF x.e <= -24 THEN F32Val(IF x.m = 0 THEN 0 ELSE 1, 0)
    ELSE F32Val((x.m + Pow2(-x.e) - 1) \div Pow2(-x.e), 0)

\* x + y for f32 values >= 0, rounded to nearest, ties to even.
F32Add(x, y) ==
    LET nx == F32Norm(x)
        ny == F32Norm(y)
        hi == IF nx.m = 0 \/ (ny.m # 0 /\ ny.e > nx.e) THEN ny ELSE nx
        lo == IF nx.m = 0 \/ (ny.m # 0 /\ ny.e > nx.e) THEN nx ELSE ny
        d  == hi.e - lo.e
    IN  IF lo.m = 0 \/ d > 25 THEN hi
        ELSE LET den == Pow2(d)
                 s   == hi.m + (lo.m \div den)
                 r   == lo.m % den
             IN  IF s < F32Lim
                 THEN F32Fit(RoundNE(s, r, den), hi.e)
                 ELSE F32Fit(RoundNE(s \div 2, (s % 2) * den + r, 2 * den), hi.e + 1)

\* f32 as usize for a value >= 0 below 2^64: the integer part.
F32ToU64(x) ==
    IF x.e >= 0 THEN U64Shl(U64(x.m), x.e)
    ELSE IF x.e <= -24 THEN U64Zero
    ELSE U64(x.m \div Pow2(-x.e))

\* ------------------------------------------------------------ pad_data, pure parts

ZeroBlock == [k \in 1..16 |-> W0]

\* inp.len() * 8 (line 130).
InpLenBits(len) == U64Mul8(len)

\* The block count of lines 137-143 for inp_len_bits = bits.
NumBlocks(bits) ==
    LET whole == F32Ceil(F32Div(U64ToF32(bits), 512))
        extra == F32Floor(F32Div(U64ToF32(U64(bits[1] % 512)), 448))
        n     == F32ToU64(F32Add(whole, extra))
    IN  IF U64Lt(n, U64One) THEN U64One ELSE n

\* Line 152: the block of input byte i.
BlockNum(i) == F32ToU64(F32Floor(F32Div(U64ToF32(U64(i)), 64)))

\* Line 154: the word of input byte i within its block.
BlockPos(i) == F32ToU64(F32Floor(F32Div(U64ToF32(U64(i % 64)), 4)))

\* Line 159: the shift that places input byte i in its word.
ByteShift(i) == 24 - ((i % 4) * 8)

\* blocks[bn][bp] |= v, on 0-based indices that are in bounds.
OrInto(bs, bn, bp, v) ==
    [bs EXCEPT ![bn + 1] = [@ EXCEPT ![bp + 1] = Or32(@, v)]]

\* OneBitPlace with a bug: the word after a completed word is not advanced to.
OneBitPlaceNoAdvance(len, bn, bp) ==
    [bn |-> bn, bp |-> bp, sh |-> 24 - ((len[1] % 4) * 8)]

\* Lines 164-173: where the 1 bit goes, from the length and the indices the
\* byte loop ended with.
OneBitPlace(len, bn, bp) ==
    LET next_input == len[1] % 4
    IN  IF next_input = 0 /\ U64Lt(U64Zero, len)
        THEN IF bp = U64(15)
             THEN [bn |-> U64Zero, bp |-> U64Zero, sh |-> 24]
             ELSE [bn |-> bn, bp |-> U64Inc(bp), sh |-> 24]
        ELSE [bn |-> bn, bp |-> bp, sh |-> 24 - (next_input * 8)]

\* Lines 181-183: the bit length in the last two words of the last block.
SetLength(bs, bits) ==
    [bs EXCEPT ![Len(bs)] =
        [@ EXCEPT ![16] = U64Low32(bits), ![15] = U64High32(bits)]]

\* ------------------------------------------------------------ block, pure parts

\* Rounds with a bug: the loop runs over 0..=80.
RoundsOneMore == 80 + 1

\* The number of rounds (line 92).
Rounds == 80

\* i as u8 (lines 107, 109).
AsU8(i) == i % 256

\* Lines 192-205; defined for round <= 79, the code panics otherwise.
f(round, x, y, z) ==
    IF round <= 19 THEN Xor32(And32(x, y), And32(Not32(x), z))
    ELSE IF round <= 39 THEN Xor32(Xor32(x, y), z)
    ELSE IF round <= 59 THEN Xor32(Xor32(And32(x, y), And32(x, z)), And32(y, z))
    ELSE Xor32(Xor32(x, y), z)

\* sha1_const with a bug: the first band one round too long.
sha1_const_band(round) ==
    IF round <= 20 THEN Word(\h5a82, \h7999)
    ELSE IF round <= 39 THEN Word(\h6ed9, \heba1)
    ELSE IF round <= 59 THEN Word(\h8f1b, \hbcdc)
    ELSE Word(\hca62, \hc1d6)

\* Lines 211-220; defined for round <= 79, the code panics otherwise.
sha1_const(round) ==
    IF round <= 19 THEN Word(\h5a82, \h7999)
    ELSE IF round <= 39 THEN Word(\h6ed9, \heba1)
    ELSE IF round <= 59 THEN Word(\h8f1b, \hbcdc)
    ELSE Word(\hca62, \hc1d6)

\* The schedule entries round i reads to derive w[i] (line 98).
SchedReads(i) == <<i - 3, i - 8, i - 14, i - 16>>

\* SchedStep with a bug: the derived entries are not rotated (SHA-0).
SchedStepNoRotate(w, blk, i) ==
    IF i <= 15 THEN [w EXCEPT ![i + 1] = blk[i + 1]]
    ELSE LET r == SchedReads(i)
         IN  [w EXCEPT ![i + 1] =
                Xor32(Xor32(Xor32(w[r[1] + 1], w[r[2] + 1]), w[r[3] + 1]), w[r[4] + 1])]

\* Lines 93-102: the schedule after round i's match arm (w is 1-based here).
SchedStep(w, blk, i) ==
    IF i <= 15 THEN [w EXCEPT ![i + 1] = blk[i + 1]]
    ELSE LET r == SchedReads(i)
         IN  [w EXCEPT ![i + 1] =
                RotL(Xor32(Xor32(Xor32(w[r[1] + 1], w[r[2] + 1]), w[r[3] + 1]),
                           w[r[4] + 1]), 1)]

\* Lines 106-116: the working variables <<a, b, c, d, e>> after round i,
\* given the schedule entry wi.
RoundStep(v, wi, i) ==
    LET t == Add32(Add32(Add32(Add32(RotL(v[1], 5), f(AsU8(i), v[2], v[3], v[4])),
                               v[5]), sha1_const(AsU8(i))), wi)
    IN  <<t, v[1], RotL(v[2], 30), v[3], v[4]>>

\* The panic round i runs into, "" when none: the match of lines 93-102,
\* then f and sha1_const on the round cast to u8.
RoundFault(i) ==
    IF i > 79 THEN "schedule"
    ELSE IF AsU8(i) > 79 THEN "f"
    ELSE ""

\* Lines 119-123.
AddState(h, v) == [k \in 1..5 |-> Add32(h[k], v[k])]

\* Lines 92-117: the round loop's body on [i, v, w], the round index, the
\* working variables and the schedule.
RoundBody(s, blk) ==
    LET w2 == SchedStep(s.w, blk, s.i)
    IN  [i |-> s.i + 1, v |-> RoundStep(s.v, w2[s.i + 1], s.i), w |-> w2]

\* Lines 80-117: block's loop as a function.
RECURSIVE BlockRounds(_, _)
BlockRounds(s, blk) == IF s.i = Rounds THEN s ELSE BlockRounds(RoundBody(s, blk), blk)

\* block as a function: the hash after compressing blk into h.
BlockFn(h, blk) ==
    AddState(h, BlockRounds([i |-> 0, v |-> h, w |-> [k \in 1..80 |-> W0]], blk).v)

\* ------------------------------------------------------------ sha1, pure parts

\* 2 << 61 (line 50).
LenLimit == U64Shl(U64(2), 61)

\* Lines 55-61.
InitialHash ==
    << Word(\h6745, \h2301), Word(\hefcd, \hab89), Word(\h98ba, \hdcfe),
       Word(\h1032, \h5476), Word(\hc3d2, \he1f0) >>

\* CurBlock with a bug: every call is given the first block.
CurBlockFirst(bs, k) == bs[1]

\* &blocks[i] (line 66), i 0-based.
CurBlock(bs, k) == bs[k + 1]

\* ------------------------------------------------------------ to_string

HexDigit == <<"0", "1", "2", "3", "4", "5", "6", "7",
              "8", "9", "a", "b", "c", "d", "e", "f">>

\* {:x} of a value below 2^16: no leading zeros.
RECURSIVE Hex16(_)
Hex16(n) == IF n < 16 THEN HexDigit[n + 1] ELSE Hex16(n \div 16) \o HexDigit[(n % 16) + 1]

RECURSIVE ZeroPad(_, _)
ZeroPad(str, width) == IF Len(str) >= width THEN str ELSE ZeroPad("0" \o str, width)

\* {:x} of a u32.
Hex32(x) == IF x[1] = 0 THEN Hex16(x[2]) ELSE Hex16(x[1]) \o ZeroPad(Hex16(x[2]), 4)

\* {:08x} of a u32 (line 37).
Fmt08x(x) == ZeroPad(Hex32(x), 8)

\* Lines 36-43.
to_string(h) == Fmt08x(h[1]) \o Fmt08x(h[2]) \o Fmt08x(h[3]) \o Fmt08x(h[4]) \o Fmt08x(h[5])

\* ------------------------------------------------------------ inputs

\* Every length up to MaxLen is enumerated byte by byte, and the lengths of
\* LongLens around the second and third block boundary.
MaxLen == 66

LongLens == {119, 120, 127, 128, 129}

\* An input slice is its length (a usize), the bytes given explicitly
\* (data) and, past them, bytes generated from a seed.
Slice(len, data, seed) == [len |-> len, data |-> data, seed |-> seed]

\* inp[i], i 0-based.
ByteAt(inp, i) ==
    IF i < Len(inp.data) THEN inp.data[i + 1] ELSE (inp.seed + 151 * i) % 256

Abc == Slice(U64(3), <<97, 98, 99>>, 0)

\* b"Hello, world! The world is here." (src/src/tests.rs line 26).
Hello ==
    Slice(U64(32),
          << 72, 101, 108, 108, 111, 44, 32, 119, 111, 114, 108, 100, 33, 32, 84, 104,
             101, 32, 119, 111, 114, 108, 100, 32, 105, 115, 32, 104, 101, 114, 101, 46 >>,
          0)

\* Lengths around the 2^61 byte ceiling: 2^61 - 1, 2^61, 2^61 + 1, 2^62.
HugeLens ==
    { <<H16 - 1, H16 - 1, H16 - 1, 8191>>, <<0, 0, 0, 8192>>, <<1, 0, 0, 8192>>,
      <<0, 0, 0, 16384>> }

Inputs ==
    {Slice(U64(n), <<>>, 131) : n \in (0..MaxLen) \cup LongLens}
    \cup {Abc, Hello}
    \cup {Slice(l, <<>>, 131) : l \in HugeLens}

\* ------------------------------------------------------------ state

VARIABLES
    inp,         \* the input slice
    pc,          \* the place in sha1 / pad_data / block
    bits,        \* pad_data: inp_len_bits
    num_blocks,  \* pad_data: num_blocks
    blocks,      \* pad_data: blocks, then sha1: blocks
    i,           \* pad_data: the byte loop's index
    block_num,   \* pad_data: block_num
    block_pos,   \* pad_data: block_pos
    hash,        \* sha1: hash
    bi,          \* sha1: the block loop's index
    prev,        \* history: the hash the last call of block was given
    v,           \* block: <<a, b, c, d, e>>, empty outside block
    w,           \* block: the message schedule (entry k at w[k + 1]), empty outside block
    wset,        \* history: the schedule indices written in this call
    rnd,         \* block: the round loop's index
    out,         \* what Sha1::new returned, then the hex string
    fault        \* the panic or abort that ended the run, "" when none

vars == <<inp, pc, bits, num_blocks, blocks, i, block_num, block_pos, hash, bi,
          prev, v, w, wset, rnd, out, fault>>

padVars == <<bits, num_blocks, blocks, i, block_num, block_pos>>
blockVars == <<v, w, wset, rnd>>

ZeroHash == [k \in 1..5 |-> W0]
ZeroSched == [k \in 1..80 |-> W0]

\* The most blocks the model allocates; a larger request ends the run as
\* an allocation failure.
MaxAlloc == 4

Start(input, at) ==
    /\ inp = input
    /\ pc = at
    /\ bits = U64Zero
    /\ num_blocks = U64Zero
    /\ blocks = <<>>
    /\ i = 0
    /\ block_num = U64Zero
    /\ block_pos = U64Zero
    /\ hash = ZeroHash
    /\ bi = 0
    /\ prev = ZeroHash
    /\ v = <<>>
    /\ w = <<>>
    /\ wset = {}
    /\ rnd = 0
    /\ out = "none"
    /\ fault = ""

Init == \E input \in Inputs : Start(input, "sha1")

Panic(why) ==
    /\ pc' = "panic"
    /\ fault' = why

\* ------------------------------------------------------------ sha1

\* Lines 50-61: the length check, then the initial hash values.
CheckLen ==
    /\ pc = "sha1"
    /\ IF U64Ge(inp.len, LenLimit)
       THEN /\ pc' = "done"
            /\ out' = "DataTooLarge"
            /\ UNCHANGED hash
       ELSE /\ pc' = "pad_data"
            /\ hash' = InitialHash
            /\ UNCHANGED out
    /\ UNCHANGED <<inp, padVars, bi, prev, blockVars, fault>>

\* Lines 130-148 with the wrapped bit length lb: the block count and the
\* allocation of the zeroed blocks.
Allocate(lb) ==
    LET n == NumBlocks(lb)
    IN  /\ bits' = lb
        /\ num_blocks' = n
        /\ IF U64Small(n) /\ U64Nat(n) <= MaxAlloc
           THEN /\ blocks' = [k \in 1..U64Nat(n) |-> ZeroBlock]
                /\ pc' = "pad_loop"
                /\ UNCHANGED fault
           ELSE /\ blocks' = <<>>
                /\ Panic("alloc")
        /\ i' = 0
        /\ block_num' = U64Zero
        /\ block_pos' = U64Zero

\* An overflowing inp.len() * 8 panics in a build with overflow checks and
\* wraps in a build without.
PadAlloc ==
    /\ pc = "pad_data"
    /\ \/ /\ InpLenBits(inp.len).ovf
          /\ Panic("mul_overflow")
          /\ UNCHANGED padVars
       \/ Allocate(InpLenBits(inp.len).v)
    /\ UNCHANGED <<inp, hash, bi, prev, blockVars, out>>

\* Lines 150-160: one iteration of the byte loop.
PadByte ==
    /\ pc = "pad_loop"
    /\ U64Lt(U64(i), inp.len)
    /\ LET bn == BlockNum(i)
           bp == BlockPos(i)
       IN  /\ block_num' = bn
           /\ block_pos' = bp
           /\ IF U64Lt(bn, num_blocks) /\ U64Lt(bp, U64(16))
              THEN /\ blocks' = OrInto(blocks, U64Nat(bn), U64Nat(bp),
                                       ShlByte(ByteAt(inp, i), ByteShift(i)))
                   /\ i' = i + 1
                   /\ UNCHANGED <<pc, fault>>
              ELSE /\ Panic("index")
                   /\ UNCHANGED <<blocks, i>>
    /\ UNCHANGED <<inp, bits, num_blocks, hash, bi, prev, blockVars, out>>

\* Lines 164-177: after the loop, the 1 bit.
PadOneBit ==
    /\ pc = "pad_loop"
    /\ ~U64Lt(U64(i), inp.len)
    /\ LET at == OneBitPlace(inp.len, block_num, block_pos)
       IN  /\ block_num' = at.bn
           /\ block_pos' = at.bp
           /\ IF U64Lt(at.bn, num_blocks) /\ U64Lt(at.bp, U64(16))
              THEN /\ blocks' = OrInto(blocks, U64Nat(at.bn), U64Nat(at.bp),
                                       ShlByte(128, at.sh))
                   /\ pc' = "pad_len"
                   /\ UNCHANGED fault
              ELSE /\ Panic("index")
                   /\ UNCHANGED blocks
    /\ UNCHANGED <<inp, bits, num_blocks, i, hash, bi, prev, blockVars, out>>

\* Lines 181-185: the length field; pad_data returns.
PadLength ==
    /\ pc = "pad_len"
    /\ blocks' = SetLength(blocks, bits)
    /\ pc' = "hash_loop"
    /\ bi' = 0
    /\ UNCHANGED <<inp, bits, num_blocks, i, block_num, block_pos, hash, prev,
                   blockVars, out, fault>>

\* Lines 65-66 and 80-89: the next block is given to block.
BlockEnter ==
    /\ pc = "hash_loop"
    /\ bi < Len(blocks)
    /\ pc' = "round"
    /\ prev' = hash
    /\ v' = hash
    /\ w' = ZeroSched
    /\ wset' = {}
    /\ rnd' = 0
    /\ UNCHANGED <<inp, padVars, hash, bi, out, fault>>

\* Lines 92-117: one round.
Round ==
    /\ pc = "round"
    /\ rnd < Rounds
    /\ IF RoundFault(rnd) # ""
       THEN /\ Panic(RoundFault(rnd))
            /\ UNCHANGED blockVars
       ELSE LET s == RoundBody([i |-> rnd, v |-> v, w |-> w], CurBlock(blocks, bi))
            IN  /\ w' = s.w
                /\ wset' = wset \cup {rnd}
                /\ v' = s.v
                /\ rnd' = s.i
                /\ UNCHANGED <<pc, fault>>
    /\ UNCHANGED <<inp, padVars, hash, bi, prev, out>>

\* Lines 119-123: the working variables are added into the hash.
BlockExit ==
    /\ pc = "round"
    /\ rnd = Rounds
    /\ hash' = AddState(hash, v)
    /\ bi' = bi + 1
    /\ pc' = "hash_loop"
    /\ v' = <<>>
    /\ w' = <<>>
    /\ wset' = {}
    /\ rnd' = 0
    /\ UNCHANGED <<inp, padVars, prev, out, fault>>

\* Lines 69-75 and 31-33: sha1 returns the hash, Sha1::new wraps it.
Return ==
    /\ pc = "hash_loop"
    /\ bi = Len(blocks)
    /\ pc' = "new"
    /\ out' = "Ok"
    /\ UNCHANGED <<inp, padVars, hash, bi, prev, blockVars, fault>>

\* Lines 36-43: to_string on the value Sha1::new returned.
Render ==
    /\ pc = "new"
    /\ out' = to_string(hash)
    /\ pc' = "done"
    /\ UNCHANGED <<inp, padVars, hash, bi, prev, blockVars, fault>>

Next ==
    \/ CheckLen
    \/ PadAlloc
    \/ PadByte
    \/ PadOneBit
    \/ PadLength
    \/ BlockEnter
    \/ Round
    \/ BlockExit
    \/ Return
    \/ Render

Spec == Init /\ [][Next]_vars

\* ------------------------------------------------------------ pad_data on long inputs
\* The index arithmetic of pad_data on inputs too long to enumerate byte by
\* byte: the block count of lines 130-143, the loop body's indices (lines
\* 152-159) at chosen iterations, and the place of the 1 bit (lines 164-177).
\* The blocks' contents are left out (blocks stays empty); num_blocks is the
\* length of the vector the code allocates.

\* How far around each base length the lengths are taken.
IdxSpread == 3

IdxBases == {64, Pow2(21), Pow2(24), Pow2(24) + 64, Pow2(25), Pow2(27)}

IdxLens == {b + d : b \in IdxBases, d \in (0 - IdxSpread)..IdxSpread}

\* The iterations looked at for an input of len bytes.
IdxSteps(len) == {0, 1, 63, 64, len - 65, len - 64, len - 2, len - 1} \cap 0..(len - 1)

IdxInit == \E n \in IdxLens : Start(Slice(U64(n), <<>>, 131), "idx_pad_data")

\* Lines 130-148 without the allocation.
IdxAlloc ==
    /\ pc = "idx_pad_data"
    /\ ~InpLenBits(inp.len).ovf
    /\ bits' = InpLenBits(inp.len).v
    /\ num_blocks' = NumBlocks(InpLenBits(inp.len).v)
    /\ pc' = "idx_loop"
    /\ UNCHANGED <<inp, blocks, i, block_num, block_pos, hash, bi, prev, blockVars,
                   out, fault>>

\* Lines 150-160 at iteration k, the iterations from i to k - 1 passed over.
IdxByte ==
    /\ pc = "idx_loop"
    /\ \E k \in IdxSteps(U64Nat(inp.len)) :
          /\ k >= i
          /\ block_num' = BlockNum(k)
          /\ block_pos' = BlockPos(k)
          /\ IF U64Lt(BlockNum(k), num_blocks) /\ U64Lt(BlockPos(k), U64(16))
             THEN /\ i' = k + 1
                  /\ UNCHANGED <<pc, fault>>
             ELSE /\ i' = k
                  /\ Panic("index")
    /\ UNCHANGED <<inp, bits, num_blocks, blocks, hash, bi, prev, blockVars, out>>

\* Lines 164-177 after the last iteration.
IdxOneBit ==
    /\ pc = "idx_loop"
    /\ U64(i) = inp.len
    /\ LET at == OneBitPlace(inp.len, block_num, block_pos)
       IN  /\ block_num' = at.bn
           /\ block_pos' = at.bp
           /\ IF U64Lt(at.bn, num_blocks) /\ U64Lt(at.bp, U64(16))
              THEN /\ pc' = "idx_done"
                   /\ UNCHANGED fault
              ELSE Panic("index")
    /\ UNCHANGED <<inp, bits, num_blocks, blocks, i, hash, bi, prev, blockVars, out>>

IdxNext ==
    \/ IdxAlloc
    \/ IdxByte
    \/ IdxOneBit

SpecIdx == IdxInit /\ [][IdxNext]_vars

\* ------------------------------------------------------------ claims

\* pad_data has just returned its blocks to sha1.
PadReturned == pc = "hash_loop" /\ bi = 0

\* The length of an input enumerated byte by byte.
ShortInput == U64Small(inp.len)
N == U64Nat(inp.len)

\* Four bytes as a big-endian u32.
Pack(b0, b1, b2, b3) == Word(b0 * 256 + b1, b2 * 256 + b3)

\* C1: Sha1::new(input).to_string() is the standard digest for the empty
\* input and for "abc".
C1_TestVectors ==
    pc = "done" =>
        /\ inp.len = U64Zero => out = "da39a3ee5e6b4b0d3255bfef95601890afd80709"
        /\ inp = Abc => out = "a9993e364706816aba3e25717850c26c9cd0d89d"

C1_Witness ==
    pc = "done" /\ inp = Abc /\ out = "a9993e364706816aba3e25717850c26c9cd0d89d"

\* The padded message of FIPS 180-4 5.1.1 for an n byte input, byte k: the
\* input, 0x80, zeros, and the bit length 8n as 64 bits big-endian (8n is
\* below 2^32 here, so the upper four length bytes are zero).
FipsBlockCount(n) == (8 * n + 65 + 511) \div 512

FipsByte(input, n, k) ==
    LET total == 64 * FipsBlockCount(n)
    IN  IF k < n THEN ByteAt(input, k)
        ELSE IF k = n THEN 128
        ELSE IF k < total - 4 THEN 0
        ELSE ((8 * n) \div Pow2(8 * (total - 1 - k))) % 256

FipsBlocks(input, n) ==
    [b \in 1..FipsBlockCount(n) |->
        [j \in 1..16 |->
            LET k == 64 * (b - 1) + 4 * (j - 1)
            IN  Pack(FipsByte(input, n, k), FipsByte(input, n, k + 1),
                     FipsByte(input, n, k + 2), FipsByte(input, n, k + 3))]]

\* C2: the blocks pad_data returns are the input bits, a 1 bit, the fewest
\* 0 bits that bring the length to 448 mod 512, and the bit length as 64
\* bits, so ceil((L + 65) / 512) blocks.
C2_FipsPadding ==
    (PadReturned /\ ShortInput) => blocks = FipsBlocks(inp, N)

\* 2^61, the byte length whose bit length no longer fits 64 bits.
TwoPow61 == <<0, 0, 0, 8192>>

\* C3: sha1 returns DataTooLarge, before any padding or compression, for
\* every byte length >= 2^61, and for no length below.
C3_LengthBound ==
    pc # "sha1" =>
        IF U64Ge(inp.len, TwoPow61)
        THEN pc = "done" /\ out = "DataTooLarge" /\ blocks = <<>> /\ bits = U64Zero
        ELSE out # "DataTooLarge"

\* The big-endian packing of input bytes 64(b-1) .. 64(b-1)+63.
PackedBlock(input, b) ==
    [j \in 1..16 |->
        LET k == 64 * (b - 1) + 4 * (j - 1)
        IN  Pack(ByteAt(input, k), ByteAt(input, k + 1),
                 ByteAt(input, k + 2), ByteAt(input, k + 3))]

\* C4: for an input of a positive multiple of 64 bytes the 1 bit is word 0
\* of a fresh block after the blocks the input fills, and those blocks
\* still hold the packed input.
C4_FreshBlock ==
    (PadReturned /\ ShortInput /\ N > 0 /\ N % 64 = 0) =>
        /\ Len(blocks) = (N \div 64) + 1
        /\ blocks[Len(blocks)][1] = Word(32768, 0)
        /\ \A b \in 1..(N \div 64) : blocks[b] = PackedBlock(inp, b)

\* The one block of an n < 56 byte input: the bytes, 0x80, zeros up to word
\* 13, word 14 zero, word 15 the bit length.
ShortByte(input, n, k) ==
    IF k < n THEN ByteAt(input, k) ELSE IF k = n THEN 128 ELSE 0

ShortBlock(input, n) ==
    [j \in 1..16 |->
        IF j = 16 THEN Word(0, 8 * n)
        ELSE IF j = 15 THEN W0
        ELSE Pack(ShortByte(input, n, 4 * (j - 1)), ShortByte(input, n, 4 * (j - 1) + 1),
                  ShortByte(input, n, 4 * (j - 1) + 2), ShortByte(input, n, 4 * (j - 1) + 3))]

U32(n) == Word(n \div H16, n % H16)

\* The blocks src/src/tests.rs expects (lines 6-21 and 27-42).
NoInputBlocks == << [j \in 1..16 |-> IF j = 1 THEN Word(32768, 0) ELSE W0] >>

OneBlockBlocks ==
    << << U32(1214606444), U32(1865162871), U32(1869769828), U32(555766888),
          U32(1696626543), U32(1919706144), U32(1769152616), U32(1701995822),
          Word(32768, 0), W0, W0, W0, W0, W0, W0, U32(256) >> >>

\* C5: an input of n < 56 bytes pads to exactly one block: the packed
\* bytes, 0x80 right after them, zeros, word 14 zero, word 15 = 8n; the two
\* padding tests of the repository are instances.
C5_OneBlock ==
    (PadReturned /\ ShortInput /\ N < 56) =>
        /\ blocks = <<ShortBlock(inp, N)>>
        /\ N = 0 => blocks = NoInputBlocks
        /\ inp = Hello => blocks = OneBlockBlocks

C5_Witness ==
    PadReturned /\ inp = Hello /\ blocks = OneBlockBlocks /\ blocks[1][16] = Word(0, 256)

\* max(ceil(L/512) + floor((L mod 512)/448), 1) over the integers.
ExactBlocks(lb) ==
    LET whole == IF lb[1] % 512 = 0 THEN U64Shr(lb, 9) ELSE U64Inc(U64Shr(lb, 9))
        n     == IF (lb[1] % 512) \div 448 = 1 THEN U64Inc(whole) ELSE whole
    IN  IF n = U64Zero THEN U64One ELSE n

\* C6: the block count pad_data computes in f32 equals the exact value of
\* max(ceil(L/512) + floor((L mod 512)/448), 1).
C6_BlockCountExact ==
    pc # "idx_pad_data" => num_blocks = ExactBlocks(bits)

\* C7: pad_data raises no error: len * 8 does not overflow, every index the
\* byte loop and the 1 bit use is in bounds, the shifts are in 0..24.
C7_PadNoError ==
    /\ fault = ""
    /\ ~InpLenBits(inp.len).ovf
    /\ pc \in {"idx_loop", "idx_done"} /\ (i > 0 \/ pc = "idx_done") =>
          U64Lt(block_num, num_blocks) /\ U64Lt(block_pos, U64(16))
    /\ \A k \in IdxSteps(U64Nat(inp.len)) : ByteShift(k) \in {0, 8, 16, 24}

\* The compression step applied to bs[k], bs[k+1], ... in order, from h.
RECURSIVE Chain(_, _, _)
Chain(h, bs, k) == IF k > Len(bs) THEN h ELSE Chain(BlockFn(h, bs[k]), bs, k + 1)

\* C8: the state sha1 returns is the compression step applied to the
\* padded blocks in order, each once, from the fixed initial state; for two
\* blocks it is compress(compress(IV, b[0]), b[1]).
C8_Chaining ==
    pc = "new" =>
        /\ hash = Chain(InitialHash, blocks, 1)
        /\ Len(blocks) = 2 =>
              hash = BlockFn(BlockFn(InitialHash, blocks[1]), blocks[2])

C8_Witness ==
    pc = "new" /\ Len(blocks) = 2 /\ bi = 2 /\ hash # prev /\ prev # InitialHash

\* The compression of FIPS 180-4 6.1.2 as the specification words it: the
\* schedule built up front, Ch and Maj in their OR forms.
SpecCh(x, y, z) == Or32(And32(x, y), And32(Not32(x), z))
SpecParity(x, y, z) == Xor32(Xor32(x, y), z)
SpecMaj(x, y, z) == Or32(Or32(And32(x, y), And32(x, z)), And32(y, z))

SpecF(t, x, y, z) ==
    IF t \in 0..19 THEN SpecCh(x, y, z)
    ELSE IF t \in 20..39 THEN SpecParity(x, y, z)
    ELSE IF t \in 40..59 THEN SpecMaj(x, y, z)
    ELSE SpecParity(x, y, z)

SpecK(t) ==
    IF t \in 0..19 THEN Word(23170, 31129)
    ELSE IF t \in 20..39 THEN Word(28377, 60321)
    ELSE IF t \in 40..59 THEN Word(36635, 48348)
    ELSE Word(51810, 49622)

\* ws holds w[0] .. w[Len(ws) - 1]; the next entry is w[Len(ws)].
RECURSIVE SpecSchedule(_)
SpecSchedule(ws) ==
    IF Len(ws) = 80 THEN ws
    ELSE LET t == Len(ws)
         IN  SpecSchedule(Append(ws,
                 RotL(Xor32(Xor32(Xor32(ws[t - 2], ws[t - 7]), ws[t - 13]), ws[t - 15]), 1)))

RECURSIVE SpecRounds(_, _)
SpecRounds(s, ws) ==
    IF s.t = 80 THEN s.x
    ELSE LET a == s.x[1]
             b == s.x[2]
             c == s.x[3]
             d == s.x[4]
             e == s.x[5]
             T == Add32(Add32(Add32(Add32(RotL(a, 5), SpecF(s.t, b, c, d)), e),
                              SpecK(s.t)), ws[s.t + 1])
         IN  SpecRounds([t |-> s.t + 1, x |-> <<T, a, RotL(b, 30), c, d>>], ws)

SpecCompress(h, blk) ==
    LET ws == SpecSchedule([k \in 1..16 |-> blk[k]])
        r  == SpecRounds([t |-> 0, x |-> h], ws)
    IN  [k \in 1..5 |-> Add32(h[k], r[k])]

\* C9: block leaves in the state the value the specified compression
\* defines (schedule up front, OR forms of Ch and Maj, additions mod 2^32);
\* in every round the code's XOR forms and constant equal the specified
\* ones, and the schedule filled inside the loop is the up-front one.
C9_BlockIsCompression ==
    /\ (pc = "hash_loop" /\ bi > 0) => hash = SpecCompress(prev, blocks[bi])
    /\ (pc = "round" /\ rnd <= 79) =>
          /\ f(AsU8(rnd), v[2], v[3], v[4]) = SpecF(rnd, v[2], v[3], v[4])
          /\ sha1_const(AsU8(rnd)) = SpecK(rnd)
    /\ (pc = "round" /\ rnd = 80) =>
          w = SpecSchedule([k \in 1..16 |-> blocks[bi + 1][k]])

C9_Witness ==
    pc = "hash_loop" /\ bi = 2 /\ Len(blocks) = 3 /\ hash # prev

\* C10: the round index given to the schedule match, to f and to sha1_const
\* is in 0..79 and survives the cast to u8, every schedule entry a round
\* reads was written by an earlier round, and no round panic is reached.
C10_RoundsInRange ==
    /\ fault \notin {"schedule", "f", "sha1_const"}
    /\ pc = "round" =>
          /\ rnd \in 0..80
          /\ wset = 0..(rnd - 1)
          /\ rnd <= 79 =>
                /\ AsU8(rnd) = rnd
                /\ RoundFault(rnd) = ""
                /\ rnd >= 16 => \A k \in 1..4 : SchedReads(rnd)[k] \in wset

C10_Witness ==
    pc = "round" /\ rnd = 79 /\ SchedReads(rnd)[4] \in wset /\ bi = 1

====
